---- MODULE Spec2Model ----
(***************************************************************************)
(* A model of `jj gerrit upload` (cli/src/commands/gerrit/upload.rs):      *)
(* remote and target resolution, the chain to upload, the Change-Id        *)
(* stamping pass with its rewrite mapping, and the per-head push loop.     *)
(*                                                                         *)
(* A commit id is a natural number; the object store maps ids to commit    *)
(* contents and is content addressed: writing a content that is already    *)
(* stored gives back its id.  A description is its sequence of lines.      *)
(* Terminal output and the object store are taken not to fail.             *)
(***************************************************************************)
EXTENDS Naturals, Sequences, FiniteSets, TLC

VARIABLES
    store,          \* the object store: commit id -> commit content
    clock,          \* the wall clock read by the commit builder
    upload,         \* UploadArgs: revisions, remote_branch, remote, dry_run
    config,         \* settings: gerrit.default-remote, gerrit.default-remote-branch
    git_remotes,    \* git_repo.remote_names()
    git_push_default, \* git_repo.remote_default_name(Push)
    pc,             \* the position of cmd_upload
    revisions,      \* the evaluated selection
    to_upload,      \* the chain to upload, as the revset evaluator orders it
    old_heads,      \* the heads of the selection
    remote,         \* the resolved remote
    remote_branch,  \* the resolved target branch
    idx,            \* the index of the running loop
    old_to_new,     \* the rewrite mapping: original id -> id of its image
    written,        \* the commits written by the builder in this run, in order
    pushes,         \* the transport calls of this run, in order
    stderr,         \* the lines written to ui.stderr() in this run
    warnings,       \* the commits warned about in this run
    status,         \* the lines written to ui.status() in this run
    err,            \* the error the run ended with
    run,            \* the number of the current run
    prev_map,       \* the rewrite mapping of the last earlier run that completed its pass
    paths_managed,  \* paths.managed: the config file under version control
    paths_config,   \* paths.config: the applied copy of the managed config
    paths_last_reviewed, \* paths.last_reviewed: the managed config last reviewed
    enabled,        \* repo-managed-config.enabled for the command that runs
    in_repo,        \* repo_managed_config_paths() is Some
    cmd,            \* the last command: its name, --trust, the answer of the reviewer
    ui,             \* the lines the last command wrote
    result          \* the error the last command ended with

vars == <<store, clock, upload, config, git_remotes, git_push_default, pc,
          revisions, to_upload, old_heads, remote, remote_branch, idx,
          old_to_new, written, pushes, stderr, warnings, status, err, run,
          prev_map, paths_managed, paths_config, paths_last_reviewed, enabled,
          in_repo, cmd, ui, result>>

\* the state of `gerrit upload`
upload_state == <<store, clock, upload, config, git_remotes, git_push_default,
                  pc, revisions, to_upload, old_heads, remote, remote_branch,
                  idx, old_to_new, written, pushes, stderr, warnings, status,
                  err, run, prev_map>>

\* the state of the repo-managed config
repo_managed == <<paths_managed, paths_config, paths_last_reviewed, enabled,
                  in_repo, cmd, ui, result>>

env == <<upload, config, git_remotes, git_push_default>>

-----------------------------------------------------------------------------
(* Bounds *)

\* the command is run at most this many times on the same repository
MaxRuns == 2

\* the reviewer leaves at most this many lines in the applied config
MaxLines == 3

-----------------------------------------------------------------------------
(* Option<T>: None is the empty sequence, Some(x) the one-element sequence *)

None == << >>
Some(x) == <<x>>
IsSome(o) == o # None
Unwrap(o) == o[1]

\* the elements of a set of numbers in descending order
RECURSIVE SortedDesc(_)
SortedDesc(S) ==
    IF S = {} THEN << >>
    ELSE LET m == CHOOSE x \in S : \A y \in S : y <= x
         IN <<m>> \o SortedDesc(S \ {m})

\* a sequence left in its order
Reverse_omitted(s) == s

Reverse(s) == [i \in 1..Len(s) |-> s[Len(s) + 1 - i]]

Range(s) == {s[i] : i \in 1..Len(s)}

-----------------------------------------------------------------------------
(* Descriptions and trailers *)

\* the index of the first ':' of a line, 0 when it has none
ColonAt(s) ==
    LET I == {i \in 1..Len(s) : SubSeq(s, i, i) = ":"}
    IN IF I = {} THEN 0 ELSE CHOOSE i \in I : \A j \in I : i <= j

HasSpace(s) == \E i \in 1..Len(s) : SubSeq(s, i, i) = " "

RECURSIVE TrimStart(_)
TrimStart(s) ==
    IF Len(s) > 0 /\ SubSeq(s, 1, 1) = " "
    THEN TrimStart(SubSeq(s, 2, Len(s)))
    ELSE s

\* a line "key: value" read as a trailer, None for any other line
ParseTrailerLine(s) ==
    LET c == ColonAt(s)
        key == SubSeq(s, 1, c - 1)
    IN IF c <= 1 \/ HasSpace(key) THEN None
       ELSE Some([key |-> key, value |-> TrimStart(SubSeq(s, c + 1, Len(s)))])

RECURSIVE TrimEndLines(_)
TrimEndLines(d) ==
    IF Len(d) > 0 /\ d[Len(d)] = ""
    THEN TrimEndLines(SubSeq(d, 1, Len(d) - 1))
    ELSE d

RECURSIVE TrimStartLines(_)
TrimStartLines(d) ==
    IF Len(d) > 0 /\ d[1] = "" THEN TrimStartLines(Tail(d)) ELSE d

\* str::trim on a description: its leading and trailing blank lines go
Trim(d) == TrimStartLines(TrimEndLines(d))

\* the trailers of s whose key is k, in order
SelectTrailers(s, k) == SelectSeq(s, LAMBDA t : t.key = k)

\* parse_description_trailers: the trailers of the last paragraph, which is
\* a trailer block only when a blank line precedes it and either each of
\* its lines is a trailer or one of them is a Signed-off-by trailer
parse_description_trailers(d) ==
    LET body == TrimEndLines(d)
        B == {i \in 1..Len(body) : body[i] = ""}
        b == IF B = {} THEN 0 ELSE CHOOSE i \in B : \A j \in B : j <= i
        para == SubSeq(body, b + 1, Len(body))
        parsed == [i \in 1..Len(para) |-> ParseTrailerLine(para[i])]
        found == SelectSeq(parsed, LAMBDA o : IsSome(o))
        trailers == [i \in 1..Len(found) |-> Unwrap(found[i])]
        non_trailer == \E i \in 1..Len(parsed) : parsed[i] = None
        found_git_trailer ==
            \E i \in 1..Len(trailers) : trailers[i].key = "Signed-off-by"
    IN IF B = {} THEN << >>
       ELSE IF non_trailer /\ ~found_git_trailer THEN << >>
       ELSE trailers

\* lines 235-238: the trailers whose key is Change-Id
change_id_trailers(d) == SelectTrailers(parse_description_trailers(d), "Change-Id")

\* the expected length of a Change-Id value (line 253)
ChangeIdLen == 41

\* line 253 with the length of the hex part in place of the whole value's
InvalidChangeId_hex_length(v) == Len(v) # ChangeIdLen - 1 \/ SubSeq(v, 1, 1) # "I"

\* line 253 with the check of the first character only
InvalidChangeId_prefix_only(v) == SubSeq(v, 1, 1) # "I"

\* line 253: the shape check of an existing Change-Id value
InvalidChangeId(v) == Len(v) # ChangeIdLen \/ SubSeq(v, 1, 1) # "I"

\* line 270 without the padding that brings the value to 41 characters
gerrit_change_id_unpadded(change_id_hex) == "I" \o change_id_hex

\* line 270: the Gerrit change id derived from the jj change id
gerrit_change_id(change_id_hex) == "I6a6a6964" \o change_id_hex

\* lines 272-277 with "\n" as the separator whatever the trailers
new_description_no_blank_line(d, gid) == Trim(d) \o <<"Change-Id: " \o gid>>

\* lines 272-277: the description with the Change-Id trailer appended
new_description(d, gid) ==
    LET trimmed == Trim(d)
        line == "Change-Id: " \o gid
    IN IF parse_description_trailers(d) = << >>
       THEN IF trimmed = << >> THEN <<"", "", line>>
            ELSE trimmed \o <<"", line>>
       ELSE trimmed \o <<line>>

-----------------------------------------------------------------------------
(* The repository: commits, the graph, the immutable set *)

\* store.root_commit_id()
RootId == 0

\* the graph the command runs on:
\*   0 root <- 1 base <- 2 main          (immutable; main is the immutable head)
\*             1 base <- 3 A <- 4 B      (mutable, on top of a non-head immutable)
\*                       2 main <- 5 C   (mutable)
GraphParents == (0 :> << >>) @@ (1 :> <<0>>) @@ (2 :> <<1>>) @@
                (3 :> <<1>>) @@ (4 :> <<3>>) @@ (5 :> <<2>>)

OriginalIds == DOMAIN GraphParents

ImmutableHeads == {2}

Hex32(i) == "0000000000000000000000000000000" \o
            <<"0", "1", "2", "3", "4", "5", "6", "7", "8", "9">>[i + 1]

GoodId1 == "I" \o "aaaaaaaaaaaaaaaaaaaaaaaaaaaaaaaaaaaaaaaa"
GoodId2 == "I" \o "bbbbbbbbbbbbbbbbbbbbbbbbbbbbbbbbbbbbbbbb"

\* the descriptions a commit of the graph may carry, by kind
KindDescription(k) ==
    CASE k = "plain"    -> <<"fix bug">>
      [] k = "good"     -> <<"fix bug", "", "Change-Id: " \o GoodId1>>
      [] k = "short"    -> <<"fix bug", "", "Change-Id: Ideadbeef">>
      [] k = "long"     -> <<"fix bug", "", "Change-Id: " \o GoodId1 \o "a">>
      [] k = "noprefix" -> <<"fix bug", "", "Change-Id: " \o Hex32(7) \o "123456789">>
      [] k = "two"      -> <<"fix bug", "", "Change-Id: " \o GoodId1,
                             "Change-Id: " \o GoodId2>>
      [] k = "other"    -> <<"fix bug", "", "Signed-off-by: Dev <dev@example.com>">>
      [] k = "discard"  -> << >>
      [] k = "nodesc"   -> << >>

\* whether a commit of that kind changes the content of its parent
KindChangesTree(k) == k # "discard"

AllKinds == {"plain", "good", "short", "long", "noprefix", "two", "other",
             "discard", "nodesc"}

Signature(name, ts) == [name |-> name, timestamp |-> ts]

\* the store of a repository whose commits 3, 4, 5 are of kinds kA, kB, kC
InitialStore(kA, kB, kC) ==
    LET kind == (0 :> "root") @@ (1 :> "plain") @@ (2 :> "plain") @@
                (3 :> kA) @@ (4 :> kB) @@ (5 :> kC)
        tree[i \in OriginalIds] ==
            IF i = RootId THEN 0
            ELSE IF KindChangesTree(kind[i]) THEN i
            ELSE tree[GraphParents[i][1]]
    IN [i \in OriginalIds |->
          [parents     |-> GraphParents[i],
           description |-> IF i = RootId THEN << >> ELSE KindDescription(kind[i]),
           author      |-> IF i = RootId THEN Signature("", 0) ELSE Signature("alice", 1),
           committer   |-> IF i = RootId THEN Signature("", 0) ELSE Signature("alice", 1),
           change_id   |-> Hex32(i),
           tree        |-> tree[i]]]

\* the ancestors of the commits of S, S included
RECURSIVE Ancestors(_, _)
Ancestors(st, S) ==
    LET P == S \cup UNION {Range(st[c].parents) : c \in S}
    IN IF P = S THEN S ELSE Ancestors(st, P)

\* immutable_expression(): the ancestors of the immutable heads, and the root
Immutable(st) == Ancestors(st, ImmutableHeads) \cup {RootId}

\* Commit::is_discardable: no description and no change against the parents
is_discardable(st, c) ==
    /\ st[c].description = << >>
    /\ \A i \in 1..Len(st[c].parents) : st[st[c].parents[i]].tree = st[c].tree

\* index.heads(): the commits of S that are no ancestor of another one of S
Heads(st, S) ==
    {c \in S : \A d \in S \ {c} : c \notin Ancestors(st, {d})}

-----------------------------------------------------------------------------
(* Results and errors *)

NoError == [kind |-> "none", msg |-> "", name |-> "", commit |-> None, hint |-> ""]
user_error(msg) == [kind |-> "user", msg |-> msg, name |-> "", commit |-> None, hint |-> ""]
user_error_remote(msg, name) ==
    [kind |-> "user", msg |-> msg, name |-> name, commit |-> None, hint |-> ""]
user_error_commit(msg, c) ==
    [kind |-> "user", msg |-> msg, name |-> "", commit |-> Some(c),
     hint |-> ""]
user_error_with_hint(msg, hint, c) ==
    [kind |-> "user", msg |-> msg, name |-> "", commit |-> Some(c), hint |-> hint]
internal_error(msg) ==
    [kind |-> "internal", msg |-> msg, name |-> "", commit |-> None, hint |-> ""]

Ok(v) == [ok |-> TRUE, value |-> v, error |-> NoError]
Err(e) == [ok |-> FALSE, value |-> "", error |-> e]

-----------------------------------------------------------------------------
(* Remote and target resolution *)

\* calculate_push_remote with `--remote` consulted after the configuration
calculate_push_remote_config_first(remotes, cfg_remote, push_default, remote_arg) ==
    IF IsSome(cfg_remote) THEN
        IF Unwrap(cfg_remote) \in remotes THEN Ok(Unwrap(cfg_remote))
        ELSE Err(user_error_remote("remote configured via gerrit.default-remote does not exist",
                                   Unwrap(cfg_remote)))
    ELSE IF IsSome(remote_arg) THEN
        IF Unwrap(remote_arg) \in remotes THEN Ok(Unwrap(remote_arg))
        ELSE Err(user_error_remote("remote specified via --remote does not exist",
                                   Unwrap(remote_arg)))
    ELSE IF IsSome(push_default) THEN Ok(Unwrap(push_default))
    ELSE IF "gerrit" \in remotes THEN Ok("gerrit")
    ELSE Err(user_error("No remote specified, and no 'gerrit' remote was found"))

\* calculate_push_remote with an unknown explicit or configured remote skipped
calculate_push_remote_fall_through(remotes, cfg_remote, push_default, remote_arg) ==
    IF IsSome(remote_arg) /\ Unwrap(remote_arg) \in remotes THEN Ok(Unwrap(remote_arg))
    ELSE IF IsSome(cfg_remote) /\ Unwrap(cfg_remote) \in remotes THEN Ok(Unwrap(cfg_remote))
    ELSE IF IsSome(push_default) THEN Ok(Unwrap(push_default))
    ELSE IF "gerrit" \in remotes THEN Ok("gerrit")
    ELSE Err(user_error("No remote specified, and no 'gerrit' remote was found"))

\* calculate_push_remote (lines 79-121)
calculate_push_remote(remotes, cfg_remote, push_default, remote_arg) ==
    IF IsSome(remote_arg) THEN
        \* case 1
        IF Unwrap(remote_arg) \in remotes THEN Ok(Unwrap(remote_arg))
        ELSE Err(user_error_remote("remote specified via --remote does not exist",
                                   Unwrap(remote_arg)))
    ELSE IF IsSome(cfg_remote) THEN
        \* case 2
        IF Unwrap(cfg_remote) \in remotes THEN Ok(Unwrap(cfg_remote))
        ELSE Err(user_error_remote("remote configured via gerrit.default-remote does not exist",
                                   Unwrap(cfg_remote)))
    \* case 3
    ELSE IF IsSome(push_default) THEN Ok(Unwrap(push_default))
    \* case 4
    ELSE IF "gerrit" \in remotes THEN Ok("gerrit")
    \* case 5
    ELSE Err(user_error("No remote specified, and no 'gerrit' remote was found"))

\* calculate_push_ref (lines 128-147)
calculate_push_ref(cfg_branch, branch_arg) ==
    IF IsSome(branch_arg) THEN Ok(Unwrap(branch_arg))
    ELSE IF IsSome(cfg_branch) THEN Ok(Unwrap(cfg_branch))
    ELSE Err(user_error("No target branch specified via --remote-branch, and no 'gerrit.default-remote-branch' was found"))

-----------------------------------------------------------------------------
(* Rewriting one commit *)

\* MutableRepo::rewrite_commit: a builder holding the original's content with
\* the committer replaced by the current user at the current time
rewrite_commit(original, now) ==
    [original EXCEPT !.committer = Signature("alice", now)]

\* lines 279-291 with every original parent kept as it is
new_parents_unmapped(st, original, map) == original.parents

\* lines 279-291: each parent replaced by its image when the mapping has one
new_parents(st, original, map) ==
    [i \in 1..Len(original.parents) |->
        LET p == original.parents[i]
        IN IF p \in DOMAIN map THEN map[p] ELSE p]

\* lines 299-309 without the committer being set back to the original's
new_commit_rewrite_time(original, description, parents, now) ==
    [rewrite_commit(original, now) EXCEPT
        !.description = description,
        !.parents = parents,
        !.author = original.author]

\* lines 299-309: the content of the rewritten commit
new_commit(original, description, parents, now) ==
    [rewrite_commit(original, now) EXCEPT
        !.description = description,
        !.parents = parents,
        !.committer = original.committer,
        !.author = original.author]

\* CommitBuilder::write on a content-addressed store: the id of the content
write_id(st, content) ==
    IF \E i \in DOMAIN st : st[i] = content
    THEN CHOOSE i \in DOMAIN st : st[i] = content
    ELSE Cardinality(DOMAIN st)

write_store(st, content) == (write_id(st, content) :> content) @@ st

-----------------------------------------------------------------------------
(* The inputs of a run *)

Options(S) == {None} \cup {Some(x) : x \in S}

RemoteNames == {"origin", "gerrit"}

\* every environment of the remote and target resolution
Environments ==
    [remote : Options(RemoteNames), remote_branch : Options({"main"}),
     cfg_remote : Options(RemoteNames), cfg_branch : Options({"dev"}),
     push_default : Options({"origin"}), remotes : SUBSET RemoteNames]

\* the environment in which `gerrit` is the only remote and the target
\* branch is given on the command line
BasicEnvironment ==
    [remote |-> None, remote_branch |-> Some("main"), cfg_remote |-> None,
     cfg_branch |-> None, push_default |-> None, remotes |-> {"gerrit"}]

\* the selections: every set of mutable commits, and sets that hold the
\* root or another immutable commit
Selections ==
    (SUBSET {3, 4, 5}) \cup {{0}, {0, 4}, {2}, {2, 5}, {1, 3}}

\* the kinds of the commits A, B, C
Repositories == AllKinds \X AllKinds \X {"plain", "good", "noprefix", "two"}

PlainRepository == <<"plain", "plain", "plain">>

\* the runs: any repository and selection in the basic environment, and
\* any environment on the plain repository with two heads or nothing selected
Inputs ==
    [repo : Repositories, sel : Selections, env : {BasicEnvironment},
     dry_run : BOOLEAN]
    \cup
    [repo : {PlainRepository}, sel : {{4, 5}, {}}, env : Environments,
     dry_run : BOOLEAN]

-----------------------------------------------------------------------------
(* The state after construction *)

\* the state of `gerrit upload` before the command runs on the input in
InitUpload(in) ==
    /\ store = InitialStore(in.repo[1], in.repo[2], in.repo[3])
    /\ clock = 2
    /\ upload = [revisions |-> in.sel, remote |-> in.env.remote,
                 remote_branch |-> in.env.remote_branch,
                 dry_run |-> in.dry_run]
    /\ config = [default_remote |-> in.env.cfg_remote,
                 default_remote_branch |-> in.env.cfg_branch]
    /\ git_remotes = in.env.remotes
    /\ git_push_default = in.env.push_default
    /\ pc = "start"
    /\ revisions = << >>
    /\ to_upload = << >>
    /\ old_heads = << >>
    /\ remote = ""
    /\ remote_branch = ""
    /\ idx = 1
    /\ old_to_new = << >>
    /\ written = << >>
    /\ pushes = << >>
    /\ stderr = << >>
    /\ warnings = << >>
    /\ status = << >>
    /\ err = NoError
    /\ run = 1
    /\ prev_map = None

\* no command has run
NoCommand == [name |-> "", trust |-> FALSE,
              answer |-> [shown |-> FALSE, ok |-> FALSE, checked |-> {}]]

\* a workspace without a managed config
InitNoManagedConfig ==
    /\ paths_managed = None
    /\ paths_config = None
    /\ paths_last_reviewed = None
    /\ enabled = FALSE
    /\ in_repo = TRUE
    /\ cmd = NoCommand
    /\ ui = << >>
    /\ result = NoError

Init ==
    /\ \E in \in Inputs : InitUpload(in)
    /\ InitNoManagedConfig

\* `return Err(e)`: the run ends with e and changes nothing else
Fail(e) ==
    /\ pc' = "error"
    /\ err' = e

-----------------------------------------------------------------------------
(* cmd_upload, one action per step *)

\* lines 156-163 without the early return of lines 160-163
ParseRevisions_no_early_return ==
    /\ pc = "start"
    /\ revisions' = SortedDesc(upload.revisions)
    /\ pc' = "check_root"
    /\ UNCHANGED <<store, clock, env, repo_managed, to_upload, old_heads, remote,
                   remote_branch, idx, old_to_new, written, pushes, stderr,
                   warnings, status, err, run, prev_map>>

\* lines 156-163: evaluate the revisions; an empty selection ends the run
ParseRevisions ==
    /\ pc = "start"
    /\ revisions' = SortedDesc(upload.revisions)
    /\ IF upload.revisions = {}
       THEN /\ status' = Append(status, "No revisions to upload.")
            /\ pc' = "done"
       ELSE /\ status' = status
            /\ pc' = "check_root"
    /\ UNCHANGED <<store, clock, env, repo_managed, to_upload, old_heads, remote,
                   remote_branch, idx, old_to_new, written, pushes, stderr,
                   warnings, err, run, prev_map>>

\* lines 165-168 with `all` in place of `any`
selects_root_only(revs) == \A i \in 1..Len(revs) : revs[i] = RootId

\* lines 165-168: whether a selected commit is the root commit
selects_root(revs) == \E i \in 1..Len(revs) : revs[i] = RootId

\* lines 165-170
CheckRoot ==
    /\ pc = "check_root"
    /\ IF selects_root(revisions)
       THEN Fail(user_error("Cannot upload the virtual 'root()' commit"))
       ELSE pc' = "check_rewritable" /\ err' = err
    /\ UNCHANGED <<store, clock, env, repo_managed, revisions, to_upload, old_heads, remote,
                   remote_branch, idx, old_to_new, written, pushes, stderr,
                   warnings, status, run, prev_map>>

\* line 172 without the check
CheckRewritable_unchecked ==
    /\ pc = "check_rewritable"
    /\ pc' = "to_upload"
    /\ UNCHANGED <<store, clock, env, repo_managed, revisions, to_upload,
                   old_heads, remote, remote_branch, idx, old_to_new, written,
                   pushes, stderr, warnings, status, err, run, prev_map>>

\* line 172: check_rewritable
CheckRewritable ==
    /\ pc = "check_rewritable"
    /\ LET bad == Range(revisions) \cap Immutable(store)
       IN IF bad # {}
          THEN Fail(user_error_commit("Commit is immutable",
                                      CHOOSE c \in bad : \A d \in bad : d <= c))
          ELSE pc' = "to_upload" /\ err' = err
    /\ UNCHANGED <<store, clock, env, repo_managed, revisions, to_upload, old_heads, remote,
                   remote_branch, idx, old_to_new, written, pushes, stderr,
                   warnings, status, run, prev_map>>

\* lines 179-198: the ancestors of the selection but the immutable commits,
\* children before parents
\* the commits between the immutable heads and the selection only
chain_to_upload_dag_range(st, revs) ==
    SortedDesc({c \in Ancestors(st, Range(revs)) :
                   Ancestors(st, {c}) \cap ImmutableHeads # {}} \ Immutable(st))

chain_to_upload(st, revs) ==
    SortedDesc(Ancestors(st, Range(revs)) \ Immutable(st))

ComputeToUpload ==
    /\ pc = "to_upload"
    /\ to_upload' = chain_to_upload(store, revisions)
    /\ pc' = "heads"
    /\ UNCHANGED <<store, clock, env, repo_managed, revisions, old_heads, remote,
                   remote_branch, idx, old_to_new, written, pushes, stderr,
                   warnings, status, err, run, prev_map>>

\* lines 200-207: start the transaction and compute the heads of the
\* selection; the index may fail
ComputeHeads ==
    /\ pc = "heads"
    /\ \/ /\ old_heads' = SortedDesc(Heads(store, Range(revisions)))
          /\ pc' = "remote"
          /\ err' = err
       \/ /\ old_heads' = old_heads
          /\ Fail(internal_error("index.heads failed"))
    /\ UNCHANGED <<store, clock, env, repo_managed, revisions, to_upload, remote,
                   remote_branch, idx, old_to_new, written, pushes, stderr,
                   warnings, status, run, prev_map>>

\* line 210
ResolveRemote ==
    /\ pc = "remote"
    /\ LET r == calculate_push_remote(git_remotes, config.default_remote,
                                      git_push_default, upload.remote)
       IN IF r.ok
          THEN remote' = r.value /\ pc' = "remote_branch" /\ err' = err
          ELSE remote' = remote /\ Fail(r.error)
    /\ UNCHANGED <<store, clock, env, repo_managed, revisions, to_upload, old_heads,
                   remote_branch, idx, old_to_new, written, pushes, stderr,
                   warnings, status, run, prev_map>>

\* line 211
ResolveRef ==
    /\ pc = "remote_branch"
    /\ LET r == calculate_push_ref(config.default_remote_branch,
                                   upload.remote_branch)
       IN IF r.ok
          THEN remote_branch' = r.value /\ pc' = "discardable" /\ err' = err
          ELSE remote_branch' = remote_branch /\ Fail(r.error)
    /\ UNCHANGED <<store, clock, env, repo_managed, revisions, to_upload, old_heads,
                   remote, idx, old_to_new, written, pushes, stderr,
                   warnings, status, run, prev_map>>

\* lines 215-227 with the selected commits looked at in place of the chain
CheckDiscardable_selection_only ==
    /\ pc = "discardable"
    /\ LET D == {i \in 1..Len(to_upload) :
                   /\ to_upload[i] \in Range(revisions)
                   /\ is_discardable(store, to_upload[i])}
       IN IF D # {}
          THEN Fail(user_error_with_hint(
                   "Refusing to upload commit because it is an empty commit with no description",
                   "Perhaps you squashed then ran upload? Maybe you meant to upload the parent commit instead (eg. @-)",
                   to_upload[CHOOSE i \in D : \A j \in D : i <= j]))
          ELSE pc' = "stamp" /\ err' = err
    /\ idx' = 1
    /\ UNCHANGED <<store, clock, env, repo_managed, revisions, to_upload, old_heads, remote,
                   remote_branch, old_to_new, written, pushes, stderr,
                   warnings, status, run, prev_map>>

\* lines 215-227: reject the first discardable commit of the chain
CheckDiscardable ==
    /\ pc = "discardable"
    /\ LET D == {i \in 1..Len(to_upload) : is_discardable(store, to_upload[i])}
       IN IF D # {}
          THEN Fail(user_error_with_hint(
                   "Refusing to upload commit because it is an empty commit with no description",
                   "Perhaps you squashed then ran upload? Maybe you meant to upload the parent commit instead (eg. @-)",
                   to_upload[CHOOSE i \in D : \A j \in D : i <= j]))
          ELSE pc' = "stamp" /\ err' = err
    /\ idx' = 1
    /\ UNCHANGED <<store, clock, env, repo_managed, revisions, to_upload, old_heads, remote,
                   remote_branch, old_to_new, written, pushes, stderr,
                   warnings, status, run, prev_map>>

-----------------------------------------------------------------------------
(* The stamping pass *)

\* lines 230-312, one iteration: the commits of the chain, parents first
StampCommit ==
    /\ pc = "stamp"
    /\ idx <= Len(to_upload)
    /\ LET commit_id == Reverse(to_upload)[idx]
           original_commit == store[commit_id]
           description == original_commit.description
           cids == change_id_trailers(description)
       IN IF Len(cids) > 1
          THEN \* lines 242-247
               /\ Fail(user_error_commit("multiple Change-Id footers in commit",
                                         commit_id))
               /\ UNCHANGED <<store, idx, old_to_new, written, warnings>>
          ELSE IF Len(cids) = 1
          THEN \* lines 251-265: keep the commit, warn about a malformed value
               /\ warnings' = IF InvalidChangeId(cids[1].value)
                              THEN Append(warnings, commit_id)
                              ELSE warnings
               /\ old_to_new' = (commit_id :> commit_id) @@ old_to_new
               /\ idx' = idx + 1
               /\ UNCHANGED <<store, written, pc, err>>
          ELSE \* lines 267-311: write the stamped commit
               LET content ==
                       new_commit(original_commit,
                                  new_description(description,
                                      gerrit_change_id(original_commit.change_id)),
                                  new_parents(store, original_commit, old_to_new),
                                  clock)
               IN /\ store' = write_store(store, content)
                  /\ written' = Append(written, write_id(store, content))
                  /\ old_to_new' = (commit_id :> write_id(store, content)) @@ old_to_new
                  /\ idx' = idx + 1
                  /\ UNCHANGED <<warnings, pc, err>>
    /\ UNCHANGED <<clock, env, repo_managed, revisions, to_upload, old_heads, remote,
                   remote_branch, pushes, stderr, status, run, prev_map>>

\* the rewrite mapping with the content of each image
mapping_snapshot(st, map) ==
    [c \in DOMAIN map |-> [id |-> map[c], commit |-> st[map[c]]]]

\* lines 313-324: the pass is over; announce the heads to push
StampDone ==
    /\ pc = "stamp"
    /\ idx > Len(to_upload)
    /\ stderr' = stderr \o <<[text |-> "", commit |-> None, hint |-> ""],
                             [text |-> "Found heads to push to Gerrit", commit |-> None, hint |-> ""],
                             [text |-> "", commit |-> None, hint |-> ""]>>
    /\ pc' = "push"
    /\ idx' = 1
    /\ UNCHANGED <<store, clock, env, repo_managed, revisions, to_upload, old_heads, remote,
                   remote_branch, old_to_new, written, pushes, warnings,
                   status, err, run, prev_map>>

-----------------------------------------------------------------------------
(* The push loop *)

\* what git::push_updates may answer
PushOutcomes == {"ok", "NoSuchRemote", "RemoteName", "UnexpectedBackend", "Subprocess"}

\* lines 378-385: the error of a failed push
push_error(outcome) ==
    IF outcome = "Subprocess"
    THEN user_error("Internal git error while pushing to gerrit")
    ELSE user_error(outcome)

\* lines 361-371 with the head itself as the new target
push_request_original(rem, branch, head, map) ==
    [remote  |-> rem,
     updates |-> <<[qualified_name |-> "refs/for/" \o branch,
                    expected_current_target |-> None,
                    new_target |-> Some(head)]>>]

\* lines 315, 353-371: the call made for a head
push_request(rem, branch, head, map) ==
    [remote  |-> rem,
     updates |-> <<[qualified_name |-> "refs/for/" \o branch,
                    expected_current_target |-> None,
                    new_target |-> Some(map[head])]>>]

\* lines 331-347: the progress line of a head
progress_line(head) ==
    [text   |-> IF upload.dry_run THEN "Dry-run: Would push " ELSE "Pushing ",
     commit |-> Some(head)]

\* lines 330-386 with a head pushed as soon as the pass has mapped it
PushHeadEarly ==
    /\ pc \in {"stamp", "push"}
    /\ ~upload.dry_run
    /\ \E head \in Range(old_heads) \cap DOMAIN old_to_new :
          /\ \A i \in 1..Len(pushes) :
                pushes[i] # push_request(remote, remote_branch, head, old_to_new)
          /\ pushes' = Append(pushes,
                          push_request(remote, remote_branch, head, old_to_new))
          /\ stderr' = Append(stderr, progress_line(head))
    /\ UNCHANGED <<store, clock, env, repo_managed, revisions, to_upload, old_heads, remote,
                   remote_branch, idx, old_to_new, written, warnings, status,
                   err, run, prev_map, pc>>

\* lines 330-386 with a failed push recorded and the loop carried on
PushHead_continue_after_failure ==
    /\ pc = "push"
    /\ idx <= Len(old_heads)
    /\ LET head == old_heads[idx]
       IN /\ stderr' = Append(stderr, progress_line(head))
          /\ IF upload.dry_run
             THEN \* lines 349-351
                  /\ idx' = idx + 1
                  /\ UNCHANGED <<pushes, pc, err>>
             ELSE IF head \notin DOMAIN old_to_new
             THEN \* line 354: unwrap of a missing image
                  /\ pc' = "panic"
                  /\ UNCHANGED <<pushes, idx, err>>
             ELSE /\ pushes' = Append(pushes,
                         push_request(remote, remote_branch, head, old_to_new))
                  /\ \E outcome \in PushOutcomes :
                        IF outcome = "ok"
                        THEN idx' = idx + 1 /\ UNCHANGED <<pc, err>>
                        ELSE /\ idx' = idx + 1
                             /\ pc' = IF idx = Len(old_heads) THEN "error" ELSE pc
                             /\ err' = push_error(outcome)
    /\ UNCHANGED <<store, clock, env, repo_managed, revisions, to_upload, old_heads, remote,
                   remote_branch, old_to_new, written, warnings, status, run,
                   prev_map>>

\* lines 330-386, one iteration
PushHead ==
    /\ pc = "push"
    /\ idx <= Len(old_heads)
    /\ LET head == old_heads[idx]
       IN /\ stderr' = Append(stderr, progress_line(head))
          /\ IF upload.dry_run
             THEN \* lines 349-351
                  /\ idx' = idx + 1
                  /\ UNCHANGED <<pushes, pc, err>>
             ELSE IF head \notin DOMAIN old_to_new
             THEN \* line 354: unwrap of a missing image
                  /\ pc' = "panic"
                  /\ UNCHANGED <<pushes, idx, err>>
             ELSE /\ pushes' = Append(pushes,
                         push_request(remote, remote_branch, head, old_to_new))
                  /\ \E outcome \in PushOutcomes :
                        IF outcome = "ok"
                        THEN idx' = idx + 1 /\ UNCHANGED <<pc, err>>
                        ELSE idx' = idx /\ Fail(push_error(outcome))
    /\ UNCHANGED <<store, clock, env, repo_managed, revisions, to_upload, old_heads, remote,
                   remote_branch, old_to_new, written, warnings, status, run,
                   prev_map>>

\* line 388
Finish ==
    /\ pc = "push"
    /\ idx > Len(old_heads)
    /\ pc' = "done"
    /\ UNCHANGED <<store, clock, env, repo_managed, revisions, to_upload, old_heads, remote,
                   remote_branch, idx, old_to_new, written, pushes, stderr,
                   warnings, status, err, run, prev_map>>

is_push_error(e) == \E o \in PushOutcomes \ {"ok"} : e = push_error(o)

\* the stamping pass of the current run has gone through the whole chain
stamping_complete ==
    \/ pc \in {"push", "panic"}
    \/ pc = "done" /\ upload.revisions # {}
    \/ pc = "error" /\ is_push_error(err)

\* the command is run again on the same repository with the same arguments:
\* the transaction was never finished, so only the object store and the
\* clock differ
Rerun ==
    /\ pc \in {"done", "error"}
    /\ run < MaxRuns
    /\ run' = run + 1
    /\ clock' = clock + 1
    /\ pc' = "start"
    /\ revisions' = << >>
    /\ to_upload' = << >>
    /\ old_heads' = << >>
    /\ remote' = ""
    /\ remote_branch' = ""
    /\ idx' = 1
    /\ old_to_new' = << >>
    /\ written' = << >>
    /\ pushes' = << >>
    /\ stderr' = << >>
    /\ warnings' = << >>
    /\ status' = << >>
    /\ err' = NoError
    /\ prev_map' = IF stamping_complete
                   THEN Some(mapping_snapshot(store, old_to_new))
                   ELSE prev_map
    /\ UNCHANGED <<store, env, repo_managed>>

\* the command is run again, this time on the commits the last run made for
\* the heads: the stamped commits are the selection
RerunOnImages ==
    /\ pc = "done"
    /\ written # << >>
    /\ run < MaxRuns
    /\ run' = run + 1
    /\ clock' = clock + 1
    /\ upload' = [upload EXCEPT
                     !.revisions = {old_to_new[h] : h \in Range(old_heads)}]
    /\ pc' = "start"
    /\ revisions' = << >>
    /\ to_upload' = << >>
    /\ old_heads' = << >>
    /\ remote' = ""
    /\ remote_branch' = ""
    /\ idx' = 1
    /\ old_to_new' = << >>
    /\ written' = << >>
    /\ pushes' = << >>
    /\ stderr' = << >>
    /\ warnings' = << >>
    /\ status' = << >>
    /\ err' = NoError
    /\ prev_map' = None
    /\ UNCHANGED <<store, config, git_remotes, git_push_default, repo_managed>>

Next ==
    \/ ParseRevisions
    \/ CheckRoot
    \/ CheckRewritable
    \/ ComputeToUpload
    \/ ComputeHeads
    \/ ResolveRemote
    \/ ResolveRef
    \/ CheckDiscardable
    \/ StampCommit
    \/ StampDone
    \/ PushHead
    \/ Finish
    \/ Rerun
    \/ RerunOnImages

Spec == Init /\ [][Next]_vars

------------------------------------------------------------------------------
(* The repo-managed config: files, the loader, `config review-managed` *)

\* the lines of the config files
PagerManaged == "ui.pager = \"repo-managed pager\""
PagerOther == "ui.pager = \"other pager\""
EditorManaged == "ui.editor = \"vim\""
NotUtf8 == "<bytes that are not utf-8>"

\* the user's config
UserConfig == <<"ui.pager = \"user pager\"">>

\* the contents a file may have, as lines
Contents ==
    {<< >>, <<PagerManaged>>, <<PagerOther>>, <<EditorManaged>>,
     <<PagerManaged, EditorManaged>>, <<PagerOther, EditorManaged>>,
     <<NotUtf8>>}

\* maybe_read(path).unwrap_or_default(): a missing file reads as empty
maybe_read(file) == IF IsSome(file) THEN Unwrap(file) ELSE << >>

\* String::from_utf8 succeeds
is_utf8(content) == \A i \in 1..Len(content) : content[i] # NotUtf8

\* the position of the first " = " of a line, 0 if there is none
RECURSIVE EqualsAt(_, _)
EqualsAt(s, i) ==
    IF i + 2 > Len(s) THEN 0
    ELSE IF SubSeq(s, i, i + 2) = " = " THEN i
    ELSE EqualsAt(s, i + 1)

\* a line `key = "value"` read as a setting, None for any other line
parse_setting(s) ==
    LET e == EqualsAt(s, 1)
    IN IF e <= 1 \/ Len(s) < e + 4
          \/ SubSeq(s, e + 3, e + 3) # "\"" \/ SubSeq(s, Len(s), Len(s)) # "\""
       THEN None
       ELSE Some([key |-> SubSeq(s, 1, e - 1),
                  value |-> SubSeq(s, e + 4, Len(s) - 1)])

\* the value a config layer gives to a key, None if it sets none
layer_get(content, key) ==
    LET hits == SelectSeq(content,
                    LAMBDA l : /\ IsSome(parse_setting(l))
                               /\ Unwrap(parse_setting(l)).key = key)
    IN IF hits = << >> THEN None
       ELSE Some(Unwrap(parse_setting(hits[Len(hits)])).value)

\* the loader: the managed config is in use for this command
managed_in_use(on, repo) == on /\ repo

\* the loader: the managed file is not the one last reviewed
out_of_date(managed, last_reviewed) ==
    maybe_read(managed) # maybe_read(last_reviewed)

\* the loader: what it writes when the managed config is in use and out of date
loader_notice(on, repo, managed, last_reviewed) ==
    IF managed_in_use(on, repo) /\ out_of_date(managed, last_reviewed)
    THEN <<[kind |-> "warning", text |-> "Your repo-managed config is out of date"],
           [kind |-> "hint", text |-> "Run jj config review-managed"]>>
    ELSE << >>

\* the loader: the effective value of a key; the applied copy of the managed
\* config, when in use, goes over the user's config
effective(on, repo, applied, key) ==
    IF managed_in_use(on, repo) /\ IsSome(layer_get(maybe_read(applied), key))
    THEN layer_get(maybe_read(applied), key)
    ELSE layer_get(UserConfig, key)

\* lines 51-61: the notice of a disabled repo-managed config
disabled_notice(on) ==
    IF ~on
    THEN <<[kind |-> "warning", text |-> "repo-managed-config is disabled."],
           [kind |-> "hint",
            text |-> "Enable it with jj config set <--user|--repo> repo-managed-config.enabled true"]>>
    ELSE << >>

\* the length of the longest common prefix of two sequences
RECURSIVE CommonPrefix(_, _)
CommonPrefix(a, b) ==
    IF a = << >> \/ b = << >> \/ Head(a) # Head(b) THEN 0
    ELSE 1 + CommonPrefix(Tail(a), Tail(b))

\* the lines of a changed section, none of them checked
changed_lines(lines, change_type) ==
    [i \in 1..Len(lines) |->
        [is_checked |-> FALSE, change_type |-> change_type, line |-> lines[i]]]

\* make_diff_sections(left, right): the common lines at both ends are
\* unchanged sections; between them the lines of left are removed and the
\* lines of right are added
make_diff_sections(left, right) ==
    LET p == CommonPrefix(left, right)
        l == SubSeq(left, p + 1, Len(left))
        r == SubSeq(right, p + 1, Len(right))
        q == CommonPrefix(Reverse(l), Reverse(r))
        changed == changed_lines(SubSeq(l, 1, Len(l) - q), "Removed")
                   \o changed_lines(SubSeq(r, 1, Len(r) - q), "Added")
    IN (IF p > 0 THEN <<[kind |-> "Unchanged", lines |-> SubSeq(left, 1, p)]>>
        ELSE << >>)
       \o (IF changed # << >> THEN <<[kind |-> "Changed", lines |-> changed]>>
           ELSE << >>)
       \o (IF q > 0
           THEN <<[kind |-> "Unchanged",
                   lines |-> SubSeq(l, Len(l) - q + 1, Len(l))]>>
           ELSE << >>)

\* the changed lines of the sections, each as <<section, line>>
ChangedPositions(sections) ==
    LET lengths == {Len(sections[i].lines) : i \in 1..Len(sections)}
        longest == IF lengths = {} THEN 0
                   ELSE CHOOSE n \in lengths : \A m \in lengths : m <= n
    IN {<<i, j>> \in (1..Len(sections)) \X (1..longest) :
           sections[i].kind = "Changed" /\ j <= Len(sections[i].lines)}

\* Recorder::run: the sections with the lines checked that the reviewer chose
recorded_sections(sections, checked) ==
    [i \in 1..Len(sections) |->
        IF sections[i].kind = "Changed"
        THEN [kind |-> "Changed",
              lines |-> [j \in 1..Len(sections[i].lines) |->
                            [sections[i].lines[j] EXCEPT
                                !.is_checked = (<<i, j>> \in checked)]]]
        ELSE sections[i]]

\* lines 139-155 with the checked lines kept whatever their change type
RECURSIVE reconstruct_checked_only(_)
reconstruct_checked_only(sections) ==
    IF sections = << >> THEN << >>
    ELSE LET section == Head(sections)
             kept == SelectSeq(section.lines, LAMBDA line : line.is_checked)
             out == IF section.kind = "Unchanged" THEN section.lines
                    ELSE IF section.kind = "Changed"
                    THEN [i \in 1..Len(kept) |-> kept[i].line]
                    ELSE << >>
         IN out \o reconstruct_checked_only(Tail(sections))

\* lines 139-155: the lines the reviewed sections stand for
RECURSIVE reconstruct(_)
reconstruct(sections) ==
    IF sections = << >> THEN << >>
    ELSE LET section == Head(sections)
             kept == SelectSeq(section.lines,
                         LAMBDA line : line.is_checked = (line.change_type = "Added"))
             out == IF section.kind = "Unchanged" THEN section.lines
                    ELSE IF section.kind = "Changed"
                    THEN [i \in 1..Len(kept) |-> kept[i].line]
                    ELSE << >>
         IN out \o reconstruct(Tail(sections))

\* lines 93-127 with the review ignored
new_config_unreviewed(trust, vcs, recorded) == vcs

\* lines 93-127: the config to apply
new_config(trust, vcs, recorded) ==
    IF trust THEN vcs ELSE reconstruct(recorded)

\* lines 128-129 without the write of the last-reviewed file
write_files_config_only(files, config_content, vcs) ==
    [files EXCEPT !.config = Some(config_content)]

\* lines 128-129: the files after the two writes
write_files(files, config_content, vcs) ==
    [files EXCEPT !.config = Some(config_content), !.last_reviewed = Some(vcs)]

\* an io::Error turned into a command error
io_error(msg) == [kind |-> "io", msg |-> msg, name |-> "", commit |-> None, hint |-> ""]

\* the reviewer was not asked
NoAnswer == [shown |-> FALSE, ok |-> FALSE, checked |-> {}]

\* the outcome of cmd_review_managed (lines 43-137) on the files: the files
\* it leaves, the lines it writes, its error and the answer it was given
ReviewOutcomes(trust) ==
    LET files == [config |-> paths_config, last_reviewed |-> paths_last_reviewed]
        vcs == maybe_read(paths_managed)
        applied == maybe_read(paths_config)
        notice == loader_notice(enabled, in_repo, paths_managed, paths_last_reviewed)
                  \o disabled_notice(enabled)
        sections == make_diff_sections(applied, vcs)
        Outcome(f, lines, e, a) ==
            [files |-> f, ui |-> notice \o lines, result |-> e, answer |-> a]
    IN IF ~in_repo
       THEN \* lines 132-136
            {Outcome(files, << >>,
                     user_error("Unable to detect location of config files. Are you in a repo?"),
                     NoAnswer)}
       ELSE IF vcs = << >>
       THEN \* lines 76-86
            LET removed == [kind |-> "status",
                            text |-> "The config file has been removed from the VCS, so we have removed the local copy too."]
            IN IF ~IsSome(paths_config)
               THEN {Outcome(files, <<removed>>, io_error("remove_file"), NoAnswer)}
               ELSE IF ~IsSome(paths_last_reviewed)
               THEN {Outcome([files EXCEPT !.config = None], <<removed>>,
                             io_error("remove_file"), NoAnswer)}
               ELSE {Outcome([config |-> None, last_reviewed |-> None],
                             <<removed>>, NoError, NoAnswer)}
       ELSE IF applied = vcs
       THEN \* lines 88-91
            {Outcome(files,
                     <<[kind |-> "status", text |-> "Your config file is already up to date"]>>,
                     NoError, NoAnswer)}
       ELSE LET updated == [kind |-> "status", text |-> "Updated repo config file"]
            IN IF trust
               THEN \* lines 93-94, 128-131
                    {Outcome(write_files(files, new_config(trust, vcs, << >>), vcs),
                             <<updated>>, NoError, NoAnswer)}
               ELSE IF ~is_utf8(applied)
               THEN {Outcome(files, << >>,
                             user_error("Currently applied config was not utf-8"),
                             NoAnswer)}
               ELSE IF ~is_utf8(vcs)
               THEN {Outcome(files, << >>,
                             user_error("Config stored in VCS was not utf-8"),
                             NoAnswer)}
               ELSE \* lines 106-131: the reviewer gives up or checks lines
                    {Outcome(files, << >>, user_error("Failed to select changes"),
                             [shown |-> TRUE, ok |-> FALSE, checked |-> {}])}
                    \cup
                    {Outcome(write_files(files,
                                 new_config(trust, vcs,
                                     recorded_sections(sections, checked)),
                                 vcs),
                             <<updated>>, NoError,
                             [shown |-> TRUE, ok |-> TRUE, checked |-> checked]) :
                        checked \in {c \in SUBSET ChangedPositions(sections) :
                                        Len(reconstruct(recorded_sections(sections, c)))
                                            <= MaxLines}}

\* `jj config review-managed [--trust]`
cmd_review_managed ==
    \E trust \in BOOLEAN :
        \E o \in ReviewOutcomes(trust) :
            /\ paths_config' = o.files.config
            /\ paths_last_reviewed' = o.files.last_reviewed
            /\ ui' = o.ui
            /\ result' = o.result
            /\ cmd' = [name |-> "config review-managed", trust |-> trust,
                       answer |-> o.answer]
            /\ UNCHANGED <<paths_managed, enabled, in_repo, upload_state>>

\* `jj config get ui.pager`: the loader runs, the effective value is printed
ConfigGet ==
    /\ ui' = loader_notice(enabled, in_repo, paths_managed, paths_last_reviewed)
             \o <<[kind |-> "stdout",
                   text |-> Unwrap(effective(enabled, in_repo, paths_config,
                                             "ui.pager"))]>>
    /\ result' = NoError
    /\ cmd' = [name |-> "config get", trust |-> FALSE, answer |-> NoAnswer]
    /\ UNCHANGED <<paths_managed, paths_config, paths_last_reviewed, enabled,
                   in_repo, upload_state>>

\* the managed file changes in the working copy: a checkout, an edit
WriteManaged ==
    /\ in_repo
    /\ \E file \in Options(Contents) \ {paths_managed} : paths_managed' = file
    /\ cmd' = [name |-> "write_file", trust |-> FALSE, answer |-> NoAnswer]
    /\ ui' = << >>
    /\ result' = NoError
    /\ UNCHANGED <<paths_config, paths_last_reviewed, enabled, in_repo,
                   upload_state>>

\* repo-managed-config.enabled changes for the commands to come
SetEnabled ==
    /\ enabled' = ~enabled
    /\ cmd' = [name |-> "add_config", trust |-> FALSE, answer |-> NoAnswer]
    /\ ui' = << >>
    /\ result' = NoError
    /\ UNCHANGED <<paths_managed, paths_config, paths_last_reviewed, in_repo,
                   upload_state>>

\* a workspace, or none, in which nothing was reviewed yet
InitReview ==
    /\ InitUpload([repo |-> PlainRepository, sel |-> {}, env |-> BasicEnvironment,
                   dry_run |-> FALSE])
    /\ paths_managed = None
    /\ paths_config = None
    /\ paths_last_reviewed = None
    /\ enabled \in BOOLEAN
    /\ in_repo \in BOOLEAN
    /\ cmd = NoCommand
    /\ ui = << >>
    /\ result = NoError

NextReview ==
    \/ cmd_review_managed
    \/ ConfigGet
    \/ WriteManaged
    \/ SetEnabled

SpecReview == InitReview /\ [][NextReview]_vars

-----------------------------------------------------------------------------
(* Properties *)

\* the commits of the current mapping that were rewritten
RewrittenKeys == {c \in DOMAIN old_to_new : old_to_new[c] # c}

ProgressLines == SelectSeq(stderr, LAMBDA l : IsSome(l.commit))

MultipleTrailers(c) == Len(change_id_trailers(store[c].description)) > 1

\* C1: a run that ends with an error of validation or of the stamping pass
\* (any error but the error of a failed push) has made no transport call;
\* within a run the list of calls only grows, so none was made at any point.
C1_NoPushBeforeValidationError ==
    (pc = "error" /\ ~is_push_error(err)) => pushes = << >>

\* C1 witness: a real (not dry-run) upload of two heads fails in the
\* stamping pass on a commit with two Change-Id trailers after another
\* commit was rewritten.
C1_Witness ==
    /\ pc = "error"
    /\ ~upload.dry_run
    /\ err.msg = "multiple Change-Id footers in commit"
    /\ Len(old_heads) = 2
    /\ written # << >>

\* C2 (as claimed): whenever the chain holds a commit with two or more
\* Change-Id trailers, the run does not get past the stamping pass, and when
\* it fails it fails with a user error, no commit written, no push made.
C2_MultipleTrailersFailBeforeAnyRewrite ==
    (\E i \in 1..Len(to_upload) : MultipleTrailers(to_upload[i])) =>
        /\ pc \notin {"push", "done"}
        /\ pc = "error" => /\ err.kind \in {"user", "internal"}
                           /\ written = << >>
                           /\ pushes = << >>

\* C3: the parents of every rewritten commit are the images of the original
\* parents under the rewrite mapping where the mapping has one, the original
\* parents elsewhere; for the chain A -> B (commits 3 and 4) both rewritten,
\* the parent of B's image is A's image and not A.
C3_ParentsRemapped ==
    /\ \A c \in RewrittenKeys :
          /\ Len(store[old_to_new[c]].parents) = Len(store[c].parents)
          /\ \A i \in 1..Len(store[c].parents) :
                LET p == store[c].parents[i]
                IN store[old_to_new[c]].parents[i] =
                      IF p \in DOMAIN old_to_new THEN old_to_new[p] ELSE p
    /\ ({3, 4} \subseteq RewrittenKeys) =>
          /\ store[old_to_new[4]].parents = <<old_to_new[3]>>
          /\ store[old_to_new[4]].parents # <<3>>

\* C3 witness: A and B, neither with a trailer, have both been rewritten.
C3_Witness ==
    /\ {3, 4} \subseteq RewrittenKeys
    /\ change_id_trailers(store[3].description) = << >>
    /\ change_id_trailers(store[4].description) = << >>
    /\ pc = "done"

WellFormedSingle(c) ==
    LET t == change_id_trailers(store[c].description)
    IN /\ Len(t) = 1
       /\ Len(t[1].value) = 41
       /\ SubSeq(t[1].value, 1, 1) = "I"

\* C4: a commit with exactly one well-formed Change-Id trailer is mapped to
\* itself and is never warned about, and every commit written in the run is
\* the image of a commit mapped away from itself: none is written for it.
C4_WellFormedKeptAsIs ==
    /\ \A c \in DOMAIN old_to_new :
          WellFormedSingle(c) =>
              /\ old_to_new[c] = c
              /\ c \notin Range(warnings)
    /\ Len(written) = Cardinality(RewrittenKeys)
    /\ Range(written) = {old_to_new[c] : c \in RewrittenKeys}

\* C4 witness: B has one well-formed trailer and was processed after its
\* parent A was rewritten.
C4_Witness ==
    /\ {3, 4} \subseteq DOMAIN old_to_new
    /\ WellFormedSingle(4)
    /\ old_to_new[3] # 3

\* C5: when the command is run again on the unchanged graph and selection,
\* the stamping pass yields for every original commit the same image as the
\* first run: the same commit id and the same content (description,
\* parents, author, committer).
C5_StampingRepeatable ==
    (run >= 2 /\ stamping_complete /\ IsSome(prev_map)) =>
        prev_map = Some(mapping_snapshot(store, old_to_new))

\* C5 witness: a second run has completed a pass that rewrote two commits,
\* after a first run that completed its pass.
C5_Witness ==
    /\ run = 2
    /\ IsSome(prev_map)
    /\ pc = "done"
    /\ Cardinality(RewrittenKeys) >= 2

\* C6 (as claimed): a dry run that passes validation prints one progress
\* line per head, makes no transport call and writes no commit.
C6_DryRunWritesNothing ==
    (upload.dry_run /\ pc = "done" /\ upload.revisions # {}) =>
        /\ Len(ProgressLines) = Cardinality(Heads(store, upload.revisions))
        /\ \A i \in 1..Len(ProgressLines) :
              ProgressLines[i].text = "Dry-run: Would push "
        /\ pushes = << >>
        /\ written = << >>

\* the target branch the arguments and the configuration name
TargetBranch ==
    IF IsSome(upload.remote_branch) THEN Unwrap(upload.remote_branch)
    ELSE Unwrap(config.default_remote_branch)

\* the heads of the original selection, in the order of the index
SelectionHeads == SortedDesc(Heads(store, upload.revisions))

\* the one call the transport is to receive for the i-th head
ExpectedPush(i) ==
    [remote  |-> remote,
     updates |-> <<[qualified_name |-> "refs/for/" \o TargetBranch,
                    expected_current_target |-> None,
                    new_target |-> Some(old_to_new[SelectionHeads[i]])]>>]

\* C7: in a run that is not a dry run, while the push loop runs and no push
\* has failed the calls made so far are those of the heads already handled,
\* in head order, each with the single update of refs/for/<target-branch>
\* from no expected target to the id of the head's image; when the run is
\* done there is exactly one call per head of the original selection.
C7_OnePushPerHeadInOrder ==
    (~upload.dry_run /\ (pc = "push" \/ (pc = "done" /\ upload.revisions # {}))) =>
        /\ Len(pushes) = idx - 1
        /\ Len(pushes) <= Len(SelectionHeads)
        /\ \A i \in 1..Len(pushes) : pushes[i] = ExpectedPush(i)
        /\ pc = "done" => Len(pushes) = Len(SelectionHeads)

\* C7 witness: a real run is done after pushing two heads, one of them
\* rewritten by the pass.
C7_Witness ==
    /\ pc = "done"
    /\ ~upload.dry_run
    /\ Len(pushes) = 2
    /\ \E i \in 1..2 : old_heads[i] \in RewrittenKeys

\* the four sources of the remote, by priority
RemoteSources ==
    <<upload.remote, config.default_remote, git_push_default,
      IF "gerrit" \in git_remotes THEN Some("gerrit") ELSE None>>

PresentSources == {i \in 1..4 : IsSome(RemoteSources[i])}

FirstSource == CHOOSE i \in PresentSources : \A j \in PresentSources : i <= j

\* C8: the step that resolves the remote is decided by the present source
\* of highest priority (--remote, gerrit.default-remote, the default push
\* remote, a remote named gerrit): a remote it returns is the name that
\* source gives, whatever lower sources are present; with no source present
\* it fails with the user error that no remote was found, and only then.
C8_RemotePrecedence ==
    [][pc = "remote" =>
         /\ pc' \in {"remote", "remote_branch", "error"}
         /\ pc' = "remote_branch" =>
               /\ PresentSources # {}
               /\ remote' = Unwrap(RemoteSources[FirstSource])
         /\ (pc' = "error" /\ PresentSources # {}) =>
               /\ FirstSource <= 2
               /\ err'.name = Unwrap(RemoteSources[FirstSource])
         /\ (pc' # "remote" /\ PresentSources = {}) =>
               err' = user_error("No remote specified, and no 'gerrit' remote was found")
      ]_vars

\* C8 witness: --remote was returned although the configuration, the default
\* push remote and a remote named gerrit all offered another name.
C8_Witness ==
    /\ pc = "remote_branch"
    /\ upload.remote = Some("origin")
    /\ remote = "origin"
    /\ config.default_remote = Some("gerrit")
    /\ IsSome(git_push_default)
    /\ "gerrit" \in git_remotes

\* the remote named by --remote or, without it, by gerrit.default-remote
ExplicitRemote ==
    IF IsSome(upload.remote) THEN upload.remote ELSE config.default_remote

\* C9: when --remote (or, without it, gerrit.default-remote) names a remote
\* that is not known, resolving the remote fails with a user error naming
\* that remote and never returns a lower source; a name returned from
\* these two sources is a known remote.
C9_UnknownExplicitRemoteFails ==
    [][(pc = "remote" /\ pc' # "remote" /\ IsSome(ExplicitRemote)) =>
         IF Unwrap(ExplicitRemote) \in git_remotes
         THEN pc' = "remote_branch" /\ remote' = Unwrap(ExplicitRemote)
         ELSE /\ pc' = "error"
              /\ err'.kind = "user"
              /\ err'.name = Unwrap(ExplicitRemote)
              /\ remote' = remote
      ]_vars

\* C9 witness: --remote named an unknown remote and the run failed naming
\* it, although a default push remote and a remote named gerrit exist.
C9_Witness ==
    /\ pc = "error"
    /\ upload.remote = Some("origin")
    /\ "origin" \notin git_remotes
    /\ err.kind = "user"
    /\ err.name = "origin"
    /\ IsSome(git_push_default)
    /\ "gerrit" \in git_remotes

\* C10: a selection that holds the root commit never gets past the root
\* check: the run fails there with the user error about root(), no commit
\* is written and no push is made.
C10_RootSelectionRejected ==
    (RootId \in upload.revisions) =>
        /\ pc \in {"start", "check_root", "error"}
        /\ pc = "error" => err = user_error("Cannot upload the virtual 'root()' commit")
        /\ written = << >>
        /\ pushes = << >>
        /\ old_to_new = << >>

\* C10 witness: the selection of the root together with B has failed.
C10_Witness ==
    /\ pc = "error"
    /\ upload.revisions = {0, 4}
    /\ err.kind = "user"

\* C11: with nothing selected the run ends right after the revisions are
\* evaluated, without an error, having written "No revisions to upload." to
\* the status stream and nothing else; no commit is written or mapped and no
\* push is made, whether or not a remote and a target branch can be resolved.
C11_EmptySelectionIsNoError ==
    (upload.revisions = {}) =>
        /\ pc \in {"start", "done"}
        /\ pc = "done" => status = <<"No revisions to upload.">>
        /\ err = NoError
        /\ written = << >>
        /\ old_to_new = << >>
        /\ pushes = << >>
        /\ stderr = << >>

\* C11 witness: a run with nothing selected is done although no source
\* names a remote and no target branch is given.
C11_Witness ==
    /\ pc = "done"
    /\ upload.revisions = {}
    /\ PresentSources = {}
    /\ upload.remote_branch = None
    /\ config.default_remote_branch = None

ChainHasDiscardable ==
    \E i \in 1..Len(to_upload) :
        /\ store[to_upload[i]].description = << >>
        /\ store[to_upload[i]].tree = store[store[to_upload[i]].parents[1]].tree

\* C12: when a commit of the chain (selected, or a mutable ancestor of a
\* selected commit) has no description and the tree of its parent, the run
\* never reaches the stamping pass: no commit is written or mapped and no
\* push is made, and the error that names a commit is the user error about
\* such a commit, with the hint that the parent may have been meant.
C12_DiscardableRejected ==
    ChainHasDiscardable =>
        /\ pc \in {"heads", "remote", "remote_branch", "discardable", "error"}
        /\ written = << >>
        /\ old_to_new = << >>
        /\ pushes = << >>
        /\ (pc = "error" /\ IsSome(err.commit)) =>
              /\ err.kind = "user"
              /\ err.hint # ""
              /\ Unwrap(err.commit) \in Range(to_upload)
              /\ store[Unwrap(err.commit)].description = << >>
        /\ (pc = "error" /\ err.commit = None) =>
              \/ err.kind = "internal"
              \/ remote = ""
              \/ remote_branch = ""

\* C12 witness: B alone was selected and the run failed on its discardable
\* ancestor A.
C12_Witness ==
    /\ pc = "error"
    /\ upload.revisions = {4}
    /\ err.commit = Some(3)
    /\ err.hint # ""

\* C13: once a push has failed the run is over with a user error; the
\* failed call is the last call made, for the head the loop stood at, so no
\* later head is pushed, and the calls of the earlier heads stay as made.
C13_PushFailureStopsLoop ==
    (\E o \in PushOutcomes \ {"ok"} : err = push_error(o)) =>
        /\ pc = "error"
        /\ err.kind = "user"
        /\ ~upload.dry_run
        /\ idx <= Len(SelectionHeads)
        /\ Len(pushes) = idx
        /\ \A i \in 1..idx : pushes[i] = ExpectedPush(i)

\* C13 witness: of two heads the second failed after the first was pushed.
C13_Witness ==
    /\ pc = "error"
    /\ err = push_error("Subprocess")
    /\ Len(old_heads) = 2
    /\ idx = 2
    /\ Len(pushes) = 2

\* C13 witness: of two heads the first failed and the second was not tried.
C13_WitnessFirst ==
    /\ pc = "error"
    /\ err = push_error("NoSuchRemote")
    /\ Len(old_heads) = 2
    /\ Len(pushes) = 1

\* the commits reached from c by parent links, c included, by depth
RECURSIVE ReachedFrom(_, _)
ReachedFrom(c, depth) ==
    IF depth = 0 THEN {c}
    ELSE {c} \cup UNION {ReachedFrom(store[c].parents[i], depth - 1) :
                            i \in 1..Len(store[c].parents)}

\* the immutable commits of the graph: main, its ancestors, the root
ImmutableCommits == {0, 1, 2}

\* the chain the selection asks for: its ancestors that are not immutable
ExpectedChain ==
    UNION {ReachedFrom(c, Cardinality(OriginalIds)) : c \in upload.revisions}
        \ ImmutableCommits

\* C14: during the pass every step adds one new key, a commit of the chain,
\* and a key's parents that belong to the chain are keys already (parents
\* are mapped before their children); once the pass is complete the keys
\* are exactly the commits of the chain to upload.
C14_MappingCoversChain ==
    /\ pc = "stamp" =>
          /\ Cardinality(DOMAIN old_to_new) = idx - 1
          /\ DOMAIN old_to_new \subseteq Range(to_upload)
    /\ \A c \in DOMAIN old_to_new :
          \A i \in 1..Len(store[c].parents) :
              store[c].parents[i] \in Range(to_upload) =>
                  store[c].parents[i] \in DOMAIN old_to_new
    /\ stamping_complete =>
          /\ DOMAIN old_to_new = Range(to_upload)
          /\ DOMAIN old_to_new = ExpectedChain
          /\ Len(to_upload) = Cardinality(Range(to_upload))

\* C14 witness: the pass over the chain A, B, C is complete.
C14_Witness ==
    /\ pc = "push"
    /\ DOMAIN old_to_new = {3, 4, 5}

\* the chain has been computed in this run
ChainComputed ==
    \/ pc \in {"heads", "remote", "remote_branch", "discardable", "stamp",
               "push"}
    \/ pc = "done" /\ upload.revisions # {}

\* C15: the chain to upload holds every selected commit, holds with a commit
\* each of its parents that is not immutable, holds no immutable commit and
\* nothing that is not an ancestor of the selection: it is the set of the
\* selection's ancestors minus the immutable commits, whichever immutable
\* commit the chain sits on.
C15_ChainIsAncestorsMinusImmutable ==
    ChainComputed =>
        /\ upload.revisions \subseteq Range(to_upload)
        /\ \A c \in Range(to_upload) :
              \A i \in 1..Len(store[c].parents) :
                  store[c].parents[i] \notin ImmutableCommits =>
                      store[c].parents[i] \in Range(to_upload)
        /\ Range(to_upload) \cap ImmutableCommits = {}
        /\ Range(to_upload) = ExpectedChain

\* C15 witness: A, whose parent is the immutable commit below the immutable
\* head, is selected and its chain is pushed.
C15_Witness ==
    /\ pc = "done"
    /\ upload.revisions = {3}
    /\ store[3].parents = <<1>>
    /\ 1 \notin ImmutableHeads
    /\ Range(to_upload) = {3}
    /\ Len(pushes) = 1

\* the commits a push of t hands to the remote: t and its ancestors down to
\* the immutable commits
MadeReachable(t) == ReachedFrom(t, Cardinality(DOMAIN store)) \ ImmutableCommits

\* C18 (as claimed): every commit that a call of the transport makes
\* reachable, the pushed commit and its ancestors above the immutable
\* commits, carries exactly one Change-Id trailer.
C18_PushedCommitsAreStamped ==
    \A i \in 1..Len(pushes) :
        \A c \in MadeReachable(Unwrap(pushes[i].updates[1].new_target)) :
            Len(change_id_trailers(store[c].description)) = 1

\* the commit has exactly one Change-Id trailer and its value has not the
\* shape of 41 characters with a leading I
MalformedSingle(c) ==
    LET t == change_id_trailers(store[c].description)
    IN /\ Len(t) = 1
       /\ (Len(t[1].value) # 41 \/ SubSeq(t[1].value, 1, 1) # "I")

\* C19: the step of the pass that takes a commit with one malformed
\* Change-Id trailer adds a warning that names the commit, maps the commit
\* to itself, writes nothing and raises no error, and the pass goes on; the
\* pass is only ever aborted for a commit with several Change-Id trailers.
C19_MalformedTrailerIsNotFatal ==
    [][/\ \A c \in Range(to_upload) :
             (pc = "stamp" /\ MalformedSingle(c)
                 /\ c \notin DOMAIN old_to_new /\ c \in DOMAIN old_to_new') =>
                 /\ pc' = "stamp"
                 /\ err' = err
                 /\ idx' = idx + 1
                 /\ old_to_new'[c] = c
                 /\ warnings' = Append(warnings, c)
                 /\ store' = store
                 /\ written' = written
       /\ (pc = "stamp" /\ pc' # "stamp") =>
             \/ pc' = "push" /\ DOMAIN old_to_new = Range(to_upload)
             \/ /\ pc' = "error"
                /\ IsSome(err'.commit)
                /\ MultipleTrailers(Unwrap(err'.commit))
                /\ ~MalformedSingle(Unwrap(err'.commit))]_vars

\* C19 witness: A has one malformed trailer and was warned about, B above it
\* was stamped, and the head was pushed.
C19_Witness ==
    /\ pc = "done"
    /\ ~upload.dry_run
    /\ MalformedSingle(3)
    /\ 3 \in DOMAIN old_to_new
    /\ old_to_new[3] = 3
    /\ warnings = <<3>>
    /\ 4 \in RewrittenKeys
    /\ Len(pushes) = 1

\* C20: the image of a rewritten commit has the author, the committer (name
\* and timestamp), the change id and the tree of its original; its
\* description is the original's, trimmed, followed by one Change-Id line,
\* and parses to exactly one Change-Id trailer whose value is I6a6a6964
\* followed by the hex of the original's change id.
C20_RewriteKeepsAllButDescriptionAndParents ==
    \A c \in RewrittenKeys :
        LET original == store[c]
            image == store[old_to_new[c]]
            n == Len(image.description)
            line == "Change-Id: I6a6a6964" \o original.change_id
        IN /\ DOMAIN image = DOMAIN original
           /\ image.author = original.author
           /\ image.committer = original.committer
           /\ image.change_id = original.change_id
           /\ image.tree = original.tree
           /\ change_id_trailers(image.description) =
                  <<[key |-> "Change-Id",
                     value |-> "I6a6a6964" \o original.change_id]>>
           /\ Len(change_id_trailers(original.description)) = 0
           /\ n >= 1
           /\ image.description[n] = line
           /\ TrimEndLines(SubSeq(image.description, 1, n - 1)) =
                  Trim(original.description)

\* C20 witness: A and B were rewritten at a time that is not the time of
\* their original signatures.
C20_Witness ==
    /\ pc = "done"
    /\ RewrittenKeys = {3, 4}
    /\ clock # store[3].committer.timestamp
    /\ clock # store[3].author.timestamp

\* the last line a command wrote
LastLine == ui[Len(ui)]

\* C17: a run of review-managed with --trust in a workspace whose managed
\* file is not empty and is not the applied config leaves the content of
\* the managed file in the applied config file and in the last-reviewed
\* file, asks the reviewer nothing, ends without error and writes
\* 'Updated repo config file' last; when repo-managed-config is disabled
\* the warning and its hint come first and the update is made all the same.
C17_TrustWritesManagedToBothFiles ==
    [][(/\ cmd'.name = "config review-managed"
        /\ cmd'.trust
        /\ in_repo
        /\ maybe_read(paths_managed) # << >>
        /\ maybe_read(paths_managed) # maybe_read(paths_config)) =>
           /\ paths_managed' = paths_managed
           /\ paths_config' = paths_managed
           /\ paths_last_reviewed' = paths_managed
           /\ ~cmd'.answer.shown
           /\ result' = NoError
           /\ ui'[Len(ui')] = [kind |-> "status", text |-> "Updated repo config file"]
           /\ ~enabled =>
                 /\ Len(ui') = 3
                 /\ ui'[1] = [kind |-> "warning",
                              text |-> "repo-managed-config is disabled."]
                 /\ ui'[2].kind = "hint"
           /\ enabled =>
                 \A i \in 1..Len(ui') :
                     ui'[i].text # "repo-managed-config is disabled."]_vars

\* C17 witness: with repo-managed-config disabled, --trust has applied the
\* managed file over another applied config.
C17_Witness ==
    /\ cmd.name = "config review-managed"
    /\ cmd.trust
    /\ ~enabled
    /\ paths_managed = Some(<<PagerManaged, EditorManaged>>)
    /\ paths_config = paths_managed
    /\ paths_last_reviewed = paths_managed
    /\ Len(ui) = 3
    /\ ui[1].kind = "warning"
    /\ LastLine.text = "Updated repo config file"

\* the lines of the managed file that the applied config does not hold
ManagedOnly == Range(maybe_read(paths_managed)) \ Range(maybe_read(paths_config))

\* the reviewer of the last command checked l as an added line of the
\* sections shown
CheckedAsAdded(sections, answer, l) ==
    /\ answer.ok
    /\ \E pos \in answer.checked :
          /\ pos \in ChangedPositions(sections)
          /\ sections[pos[1]].lines[pos[2]].line = l
          /\ sections[pos[1]].lines[pos[2]].change_type = "Added"

C16_WitnessAccepted ==
    /\ cmd.name = "config get"
    /\ enabled
    /\ paths_managed = Some(<<PagerManaged>>)
    /\ paths_last_reviewed = paths_managed
    /\ ui = <<[kind |-> "stdout", text |-> "repo-managed pager"]>>

\* C21 (as claimed): after a run of review-managed that ends without error
\* on a managed file that is not empty, the last-reviewed file holds the
\* content of the managed file, on the path of an applied config already up
\* to date as on the others.
C21_ReviewedAfterEverySuccess ==
    (/\ cmd.name = "config review-managed"
     /\ result = NoError
     /\ maybe_read(paths_managed) # << >>) =>
        maybe_read(paths_last_reviewed) = maybe_read(paths_managed)

\* the commits that the stamping pass of some run wrote
Stamped == DOMAIN store \ OriginalIds

\* C22: a commit written by the stamping pass has exactly one Change-Id
\* trailer, of 41 characters with a leading I; the step of the pass that
\* takes such a commit maps it to itself, writes no commit, adds no warning
\* and raises no error.
C22_StampedCommitIsFixedPoint ==
    [][/\ \A c \in Stamped :
             LET t == change_id_trailers(store[c].description)
             IN /\ Len(t) = 1
                /\ Len(t[1].value) = 41
                /\ SubSeq(t[1].value, 1, 1) = "I"
       /\ \A c \in Stamped :
             (pc = "stamp" /\ c \notin DOMAIN old_to_new
                 /\ c \in DOMAIN old_to_new') =>
                 /\ pc' = "stamp"
                 /\ idx' = idx + 1
                 /\ old_to_new'[c] = c
                 /\ store' = store
                 /\ written' = written
                 /\ warnings' = warnings
                 /\ err' = err
       /\ (pc = "stamp" /\ pc' = "error") =>
             /\ IsSome(err'.commit)
             /\ Unwrap(err'.commit) \notin Stamped]_vars

\* C22 witness: the second run took the two stamped commits of the first
\* run, wrote nothing and pushed the head.
C22_Witness ==
    /\ run = 2
    /\ pc = "done"
    /\ ~upload.dry_run
    /\ upload.revisions \subseteq Stamped
    /\ Cardinality(DOMAIN old_to_new \cap Stamped) = 2
    /\ \A c \in DOMAIN old_to_new : old_to_new[c] = c
    /\ written = << >>
    /\ warnings = << >>
    /\ Len(pushes) = 1

\* C23: the unwrap of the lookup never fails; in the push loop every head
\* is a commit of the selection, of the chain to upload and a key of the
\* rewrite mapping.
C23_HeadLookupNeverFails ==
    /\ pc # "panic"
    /\ pc = "push" =>
          /\ Range(old_heads) \subseteq Range(revisions)
          /\ Range(revisions) \cap ImmutableCommits = {}
          /\ Range(old_heads) \subseteq Range(to_upload)
          /\ Range(old_heads) \subseteq DOMAIN old_to_new

\* C23 witness: the loop has looked up two heads and pushed their images.
C23_Witness ==
    /\ pc = "push"
    /\ ~upload.dry_run
    /\ Len(old_heads) = 2
    /\ idx = 3
    /\ Len(pushes) = 2
    /\ \A i \in 1..2 : pushes[i].updates[1].new_target = Some(old_to_new[old_heads[i]])

\* the lines of the sections from the i-th on, in order, each with the
\* verdict of the reviewer: an unchanged line stays, an added line stays if
\* checked, a removed line stays if not checked
RECURSIVE VerdictsFrom(_, _)
VerdictsFrom(sections, i) ==
    IF i > Len(sections) THEN << >>
    ELSE (IF sections[i].kind = "Unchanged"
          THEN [j \in 1..Len(sections[i].lines) |->
                   [stays |-> TRUE, line |-> sections[i].lines[j]]]
          ELSE [j \in 1..Len(sections[i].lines) |->
                   LET l == sections[i].lines[j]
                   IN [stays |-> \/ l.change_type = "Added" /\ l.is_checked
                                 \/ l.change_type = "Removed" /\ ~l.is_checked,
                       line |-> l.line]])
         \o VerdictsFrom(sections, i + 1)

\* the lines that stay, in order
StayingLines(sections) ==
    LET staying == SelectSeq(VerdictsFrom(sections, 1), LAMBDA v : v.stays)
    IN [i \in 1..Len(staying) |-> staying[i].line]

\* C24: a review that ends without error leaves in the applied config, in
\* order, the unchanged lines, the added lines that were checked and the
\* removed lines that were not, and nothing else; with every changed line
\* checked this is the managed config, with none checked the applied config
\* as it was.
C24_ReconstructKeepsTheReviewedLines ==
    [][(cmd'.name = "config review-managed" /\ cmd'.answer.ok) =>
          LET applied == maybe_read(paths_config)
              vcs == maybe_read(paths_managed)
              sections == make_diff_sections(applied, vcs)
              recorded == recorded_sections(sections, cmd'.answer.checked)
          IN /\ paths_config' = Some(StayingLines(recorded))
             /\ cmd'.answer.checked = ChangedPositions(sections) =>
                   paths_config' = Some(vcs)
             /\ cmd'.answer.checked = {} => paths_config' = Some(applied)]_vars

\* C24 witness: above an unchanged line the reviewer left the removed line
\* unchecked and checked the added line; both are in the applied config.
C24_Witness ==
    /\ cmd.name = "config review-managed"
    /\ cmd.answer.ok
    /\ paths_managed = Some(<<PagerManaged, EditorManaged>>)
    /\ paths_config = Some(<<PagerOther, PagerManaged, EditorManaged>>)
    /\ Cardinality(cmd.answer.checked) = 1

\* the reviewer checked nothing: the applied config is as it was
C24_WitnessNone ==
    /\ cmd.name = "config review-managed"
    /\ cmd.answer.ok
    /\ paths_managed = Some(<<PagerManaged, EditorManaged>>)
    /\ paths_config = Some(<<PagerOther, EditorManaged>>)
    /\ cmd.answer.checked = {}

\* the reviewer checked every changed line of a review with a removed and
\* an added line
C24_WitnessAll ==
    /\ cmd.name = "config review-managed"
    /\ cmd.answer.ok
    /\ Cardinality(cmd.answer.checked) = 2
    /\ paths_config = paths_managed
    /\ paths_managed = Some(<<PagerManaged, EditorManaged>>)

====
